---- MODULE Spec2Model ----
(***************************************************************************)
(* The IPNS inspector's lifecycle state machine (src/lib/ipns-machine.tsx) *)
(* as a TLA+ state machine: the XState context is the state, every event   *)
(* handler and every invoke completion (onDone / onError) is one action.   *)
(*                                                                         *)
(* Texts (names, key encodings, file names) are sequences of one-character *)
(* strings.  A key is identified by its payload character.                 *)
(***************************************************************************)
EXTENDS Integers, Sequences, FiniteSets, TLC

\* ---------------------------------------------------------------- bounds
\* number of distinct keys generateKeyPair can return
MaxKeys == 2

PayloadChars == <<"a", "b", "c", "d">>
\* every key there is, and the keys key generation draws from
Keys == {PayloadChars[i] : i \in 1..Len(PayloadChars)}
GeneratedKeys == {PayloadChars[i] : i \in 1..MaxKeys}
NoKey == ""

\* ------------------------------------------------------------- constants
DEFAULT_LIFETIME_MS == 86400000
DEFAULT_TTL_MS == 60000
DEFAULT_VALUE == "bafybeigdyrzt5sfp7udm7hu76uh7y26nf3efuylqabf3oclgtqy55fbzdi"

Null == "null"
NoRecord == [undefined |-> TRUE]
NoClient == "undefined"
NoFile == [undefined |-> TRUE]
NoTask == [src |-> "none"]

\* --------------------------------------------------------------- helpers
\* peerIdFromString: base36 CID ("k"), base58btc identity multihash ("1",
\* carries the public key) or base58btc sha2-256 multihash ("Q", carries no
\* public key).  Everything else, the empty string included, throws.
ValidName(t) ==
    /\ Len(t) = 2
    /\ t[1] \in {"k", "1", "Q"}
    /\ t[2] \in Keys

peerIdFromString(t) ==
    [key |-> t[2], publicKey |-> IF t[1] = "Q" THEN NoKey ELSE t[2]]

\* variant: the name is the base58 identity multihash
getIPNSNameFromKeypair_base58(k) ==
    IF k = NoKey THEN <<>> ELSE <<"1", k>>

\* peerIdFromPrivateKey(k).toCID().toString(base36)
getIPNSNameFromKeypair(k) ==
    IF k = NoKey THEN <<>> ELSE <<"k", k>>

\* peerIdFromPublicKey(pk).toCID().toString(base36)
getIPNSNameFromPublicKey(pk) == <<"k", pk>>

\* String.prototype.trim over the blank character " "
RECURSIVE TrimLeft(_)
TrimLeft(t) ==
    IF t # <<>> /\ Head(t) = " " THEN TrimLeft(Tail(t)) ELSE t

RECURSIVE TrimRight(_)
TrimRight(t) ==
    IF t # <<>> /\ t[Len(t)] = " " THEN TrimRight(SubSeq(t, 1, Len(t) - 1)) ELSE t

Trim(t) == TrimRight(TrimLeft(t))

\* CID.parse succeeds on the well-formed content identifiers only
ValidCID(v) == v \in {DEFAULT_VALUE, "bafyother"}

\* Number(event.value) for the numeric form fields; NaN is -1
NumberOf(s) ==
    CASE s = "86400000" -> 86400000
      [] s = "604800000" -> 604800000
      [] s = "60000" -> 60000
      [] s = "3600000" -> 3600000
      [] s = "" -> 0
      [] OTHER -> -1

\* ---------------------------------------------------------------- inputs
\* texts typed into the name field: an unparseable one and a name
NameTexts == {<<"x">>, <<"k", "a">>}

\* texts typed into the private-key field: the protobuf encoding of an
\* Ed25519 key followed by a blank, and a key of another type
PrivateKeyTexts == {<<"e", "b", " ">>, <<"r", "a">>}

\* every kind of private-key text: blanks only, an Ed25519 key followed by a
\* blank, and a key of another type
AllKeyTexts == {<<" ">>, <<"e", "b", " ">>, <<"r", "a">>}

\* the texts handed to getPeerIdFromString: every text of at most MaxTextLen
\* characters over the prefixes, the key payloads and a foreign character
MaxTextLen == 2
TextAlphabet == {"k", "1", "Q", "x"} \cup Keys
Texts == UNION {[1..n -> TextAlphabet] : n \in 0..MaxTextLen}

\* UPDATE_FORM events dispatched by the form
FormEvents ==
    { [field |-> "value", value |-> "notacid"],
      [field |-> "value", value |-> DEFAULT_VALUE] }

\* a signed record: key is the key its signature verifies under (NoKey for
\* a tampered record), pubKey the embedded public key (NoKey if none)
SignedRecord(k, pk, form) ==
    [key |-> k, pubKey |-> pk, value |-> form.value,
     lifetime |-> form.lifetime, ttl |-> form.ttlMs]

DefaultForm ==
    [value |-> DEFAULT_VALUE, lifetime |-> DEFAULT_LIFETIME_MS, ttlMs |-> DEFAULT_TTL_MS]

Garbage == [garbage |-> TRUE]

\* files offered to IMPORT_RECORD (undefined when the picker is cancelled)
Files ==
    { NoFile,
      [name |-> <<"k", "a", ".", "i">>, bytes |-> SignedRecord("a", NoKey, DefaultForm)] }

\* every kind of file: none, undecodable bytes, an embedded key that verifies
\* (under a file name of another key, and under a file name that does not
\* parse), an embedded key that does not, a
\* record verified by the key of the file name (base36 and base58 names), a
\* file name that does not parse (two kinds of parse error), a file name
\* without a public key, and a record not signed by the key of the file name
ImportFiles ==
    { NoFile,
      [name |-> <<"x", ".", "i">>, bytes |-> Garbage],
      [name |-> <<"k", "b", ".", "i">>, bytes |-> SignedRecord("a", "a", DefaultForm)],
      [name |-> <<"x", ".", "i">>, bytes |-> SignedRecord("a", "a", DefaultForm)],
      [name |-> <<"k", "a", ".", "i">>, bytes |-> SignedRecord("b", "a", DefaultForm)],
      [name |-> <<"k", "a", ".", "i">>, bytes |-> SignedRecord("a", NoKey, DefaultForm)],
      [name |-> <<"1", "a", ".", "i">>, bytes |-> SignedRecord("a", NoKey, DefaultForm)],
      [name |-> <<"k", "!", ".", "i">>, bytes |-> SignedRecord("a", NoKey, DefaultForm)],
      [name |-> <<"x", ".", "i">>, bytes |-> SignedRecord("a", NoKey, DefaultForm)],
      [name |-> <<"Q", "a", ".", "i">>, bytes |-> SignedRecord("a", NoKey, DefaultForm)],
      [name |-> <<"k", "b", ".", "i">>, bytes |-> SignedRecord("a", NoKey, DefaultForm)] }

\* every kind of name text: empty, unparseable and parseable
AllNameTexts == {<<>>, <<"x">>, <<"k", "a">>}

\* updates of every form field
AllFormEvents ==
    { [field |-> "value", value |-> "bafyother"],
      [field |-> "lifetime", value |-> "604800000"],
      [field |-> "ttlMs", value |-> "60000"] }

\* the smallest inputs: one name and one form event
OneName == {<<"k", "a">>}
OneFormEvent == {[field |-> "value", value |-> "notacid"]}

\* ---------------------------------------------------------------- actors
Done(output) == [ok |-> TRUE, output |-> output]
Fail(message) == [ok |-> FALSE, error |-> message]

\* createHeliaHTTP + ipnsConstructor
initHelia == {Done([helia |-> "helia", ipns |-> "ipns"]), Fail("InitFailed")}

\* generateKeyPair('Ed25519')
generateKey == {Done([keypair |-> k]) : k \in GeneratedKeys} \cup {Fail("KeyGenFailed")}

\* the record the network currently holds for a peer
ResolvedRecord(k) ==
    [key |-> k, pubKey |-> NoKey, value |-> "bafyother",
     lifetime |-> DEFAULT_LIFETIME_MS, ttl |-> DEFAULT_TTL_MS]

\* variant: an unparseable name is handed to the resolver, which fails
fetchRecord_unparsed(input) ==
    IF ~ValidName(input.name) THEN {Fail("ResolveFailed")}
    ELSE IF input.ipns = NoClient THEN {Fail("TypeError")}
    ELSE {Done([record |-> ResolvedRecord(peerIdFromString(input.name).key)]),
          Fail("ResolveFailed")}

fetchRecord(input) ==
    IF ~ValidName(input.name) THEN {Fail("Invalid IPNS name")}
    ELSE IF input.ipns = NoClient THEN {Fail("TypeError")}
    ELSE {Done([record |-> ResolvedRecord(peerIdFromString(input.name).key)]),
          Fail("ResolveFailed")}

\* variant: a record that is not published is signed without the client
createRecord_local(input) ==
    IF ~ValidCID(input.formData.value) THEN {Fail("InvalidCID")}
    ELSE IF input.keypair = NoKey \/ (input.publish /\ input.ipns = NoClient)
         THEN {Fail("TypeError")}
    ELSE {Done(SignedRecord(input.keypair, NoKey, input.formData))}
         \cup (IF input.publish THEN {Fail("PublishFailed")} ELSE {})

createRecord(input) ==
    IF ~ValidCID(input.formData.value) THEN {Fail("InvalidCID")}
    ELSE IF input.ipns = NoClient \/ input.keypair = NoKey THEN {Fail("TypeError")}
    ELSE {Done(SignedRecord(input.keypair, NoKey, input.formData))}
         \cup (IF input.publish THEN {Fail("PublishFailed")} ELSE {})

\* file.name.split('.')[0]
RECURSIVE BaseName(_)
BaseName(t) ==
    IF t = <<>> \/ Head(t) = "." THEN <<>> ELSE <<Head(t)>> \o BaseName(Tail(t))

CouldNotInfer == "Couldn't infer IPNS name from file"

\* the message peerIdFromString throws for an unparseable text
ParseError(t) ==
    IF t # <<>> /\ Head(t) = "k" THEN "Non-base36 character" ELSE "Unable to decode multibase string"

\* getPeerIdFromString: a base58 multihash (first character 1 or Q) goes to
\* peerIdFromString, any other text to CID.parse and peerIdFromCID
getPeerIdFromString(t) ==
    IF t # <<>> /\ t[1] \in {"1", "Q"}
    THEN IF ValidName(t) THEN Done(peerIdFromString(t)) ELSE Fail(ParseError(t))
    ELSE IF Len(t) = 2 /\ t[1] = "k" /\ t[2] \in Keys
         THEN Done([key |-> t[2], publicKey |-> t[2]])
         ELSE Fail(ParseError(t))

\* variant: the name is always that of the file
importRecord_filename(input) ==
    LET file == input.file IN
    IF file = NoFile THEN {Fail("No file provided")}
    ELSE LET ipnsName == BaseName(file.name)
             rec == file.bytes
         IN  IF rec = Garbage THEN {Fail("MalformedRecord")}
             ELSE IF rec.pubKey # NoKey
                  THEN IF rec.key # rec.pubKey THEN {Fail("InvalidSignature")}
                       ELSE {Done([record |-> rec, name |-> ipnsName])}
                  ELSE IF ~ValidName(ipnsName)
                       THEN IF ParseError(ipnsName) = "Non-base36 character"
                            THEN {Fail(CouldNotInfer)}
                            ELSE {Fail(ParseError(ipnsName))}
                       ELSE IF peerIdFromString(ipnsName).publicKey = NoKey
                            THEN {Fail(CouldNotInfer)}
                            ELSE IF rec.key # peerIdFromString(ipnsName).publicKey
                                 THEN {Fail("InvalidSignature")}
                                 ELSE {Done([record |-> rec, name |-> ipnsName])}

\* variant: the signature is not checked against the key of the file name
importRecord_unchecked(input) ==
    LET file == input.file IN
    IF file = NoFile THEN {Fail("No file provided")}
    ELSE LET ipnsName == BaseName(file.name)
             rec == file.bytes
         IN  IF rec = Garbage THEN {Fail("MalformedRecord")}
             ELSE IF rec.pubKey # NoKey
                  THEN IF rec.key # rec.pubKey THEN {Fail("InvalidSignature")}
                       ELSE {Done([record |-> rec, name |-> <<"k", rec.pubKey>>])}
                  ELSE IF ~ValidName(ipnsName)
                       THEN IF ParseError(ipnsName) = "Non-base36 character"
                            THEN {Fail(CouldNotInfer)}
                            ELSE {Fail(ParseError(ipnsName))}
                       ELSE IF peerIdFromString(ipnsName).publicKey = NoKey
                            THEN {Fail(CouldNotInfer)}
                            ELSE {Done([record |-> rec, name |-> ipnsName])}

importRecord(input) ==
    LET file == input.file IN
    IF file = NoFile THEN {Fail("No file provided")}
    ELSE LET ipnsName == BaseName(file.name)
             rec == file.bytes
         IN  IF rec = Garbage THEN {Fail("MalformedRecord")}
             ELSE IF rec.pubKey # NoKey
                  THEN IF rec.key # rec.pubKey THEN {Fail("InvalidSignature")}
                       ELSE {Done([record |-> rec, name |-> <<"k", rec.pubKey>>])}
                  ELSE IF ~ValidName(ipnsName)
                       THEN IF ParseError(ipnsName) = "Non-base36 character"
                            THEN {Fail(CouldNotInfer)}
                            ELSE {Fail(ParseError(ipnsName))}
                       ELSE IF peerIdFromString(ipnsName).publicKey = NoKey
                            THEN {Fail(CouldNotInfer)}
                            ELSE IF rec.key # peerIdFromString(ipnsName).publicKey
                                 THEN {Fail("InvalidSignature")}
                                 ELSE {Done([record |-> rec, name |-> ipnsName])}

\* variant: the name is not required
republishRecord_noname(input) ==
    IF input.record = NoRecord \/ input.ipns = NoClient
    THEN {Fail("Missing required parameters")}
    ELSE {Done([none |-> TRUE]), Fail("RepublishFailed")}

republishRecord(input) ==
    IF input.record = NoRecord \/ input.name = <<>> \/ input.ipns = NoClient
    THEN {Fail("Missing required parameters")}
    ELSE {Done([none |-> TRUE]), Fail("RepublishFailed")}

\* privateKeyFromProtobuf(uint8ArrayFromString(value, 'base64'))
importPrivateKey(input) ==
    IF Len(input.value) = 2 /\ input.value[1] = "e" /\ input.value[2] \in Keys
    THEN {Done([keypair |-> input.value[2]])}
    ELSE {Fail("Invalid private key")}

Outcomes(t) ==
    CASE t.src = "initHelia" -> initHelia
      [] t.src = "generateKey" -> generateKey
      [] t.src = "fetchRecord" -> fetchRecord(t.input)
      [] t.src = "createRecord" -> createRecord(t.input)
      [] t.src = "importRecord" -> importRecord(t.input)
      [] t.src = "republishRecord" -> republishRecord(t.input)
      [] t.src = "importPrivateKey" -> importPrivateKey(t.input)
      [] OTHER -> {}

\* ----------------------------------------------------------------- state
VARIABLES
    state,        \* the machine's state value
    context,      \* the machine's context (src/lib/ipns-machine.tsx, Context)
    task,         \* the actor invoked by the current state, with its input
    lastEvent     \* the last event processed other than the root-level
                  \* form, name and dialog updates

vars == <<state, context, task, lastEvent>>

States ==
    {"init", "inspect", "verifyAndFetch", "create", "generatingKey", "creatingRecord",
     "publishingRecord", "importingRecord", "importingPrivateKey", "republishingRecord"}

Modes == {"inspect", "create"}

\* the events handled by state nodes (the others are handled at the root)
StateEvents ==
    {"INSPECT_NAME", "UPDATE_MODE", "IMPORT_RECORD", "PUBLISH_RECORD", "CREATE_RECORD",
     "GENERATE_NEW_KEY", "IMPORT_PRIVATE_KEY"}

Event(type) == [type |-> type, value |-> ""]

Init ==
    /\ state = "init"
    /\ context =
         [ name |-> <<>>,
           nameInput |-> <<>>,
           error |-> Null,
           nameValidationError |-> FALSE,
           fetchingRecord |-> FALSE,
           publishingRecord |-> FALSE,
           publishSuccess |-> FALSE,
           privateKeyInput |-> <<>>,
           privateKeyError |-> Null,
           importDialogOpen |-> FALSE,
           formData |-> DefaultForm,
           record |-> NoRecord,
           keypair |-> NoKey,
           heliaInstance |-> NoClient,
           ipns |-> NoClient ]
    /\ task = [src |-> "initHelia", input |-> [none |-> TRUE]]
    /\ lastEvent = Event("xstate.init")

\* ------------------------------------------------- entry and exit actions
verifyAndFetch_entry(c) == [c EXCEPT !.error = Null, !.fetchingRecord = TRUE]
verifyAndFetch_exit(c) == [c EXCEPT !.fetchingRecord = FALSE]

\* variant: the entry action leaves publishSuccess alone
create_entry_keep(c) == [c EXCEPT !.nameValidationError = FALSE]
create_entry(c) == [c EXCEPT !.nameValidationError = FALSE, !.publishSuccess = FALSE]

publishingRecord_entry(c) == [c EXCEPT !.publishingRecord = TRUE]
publishingRecord_exit(c) == [c EXCEPT !.publishingRecord = FALSE]

republishingRecord_entry(c) == [c EXCEPT !.publishingRecord = TRUE]
\* variant: the exit action leaves the flag set
republishingRecord_exit_keep(c) == c
republishingRecord_exit(c) == [c EXCEPT !.publishingRecord = FALSE]

EntryOf(s, c) ==
    CASE s = "verifyAndFetch" -> verifyAndFetch_entry(c)
      [] s = "create" -> create_entry(c)
      [] s = "publishingRecord" -> publishingRecord_entry(c)
      [] s = "republishingRecord" -> republishingRecord_entry(c)
      [] OTHER -> c

ExitOf(s, c) ==
    CASE s = "verifyAndFetch" -> verifyAndFetch_exit(c)
      [] s = "publishingRecord" -> publishingRecord_exit(c)
      [] s = "republishingRecord" -> republishingRecord_exit(c)
      [] OTHER -> c

\* ------------------------------------------------------- invoke: inputs
verifyAndFetch_input(c) == [name |-> c.nameInput, ipns |-> c.ipns]

\* variant: the task is given the default form
creatingRecord_input_defaults(c) ==
    [keypair |-> c.keypair, formData |-> DefaultForm, ipns |-> c.ipns, publish |-> FALSE]

creatingRecord_input(c) ==
    [keypair |-> c.keypair, formData |-> c.formData, ipns |-> c.ipns, publish |-> FALSE]

publishingRecord_input(c) ==
    [keypair |-> c.keypair, formData |-> c.formData, ipns |-> c.ipns, publish |-> TRUE]

importingRecord_input(file) == [file |-> file]

importingPrivateKey_input(c) == [value |-> Trim(c.privateKeyInput)]

republishingRecord_input(c) == [record |-> c.record, name |-> c.name, ipns |-> c.ipns]

\* the actor a state invokes on entry; c is the context after the entry actions
InvokeOf(s, c, file) ==
    CASE s = "verifyAndFetch" -> [src |-> "fetchRecord", input |-> verifyAndFetch_input(c)]
      [] s = "generatingKey" -> [src |-> "generateKey", input |-> [none |-> TRUE]]
      [] s = "creatingRecord" -> [src |-> "createRecord", input |-> creatingRecord_input(c)]
      [] s = "publishingRecord" -> [src |-> "createRecord", input |-> publishingRecord_input(c)]
      [] s = "importingRecord" -> [src |-> "importRecord", input |-> importingRecord_input(file)]
      [] s = "importingPrivateKey" -> [src |-> "importPrivateKey", input |-> importingPrivateKey_input(c)]
      [] s = "republishingRecord" -> [src |-> "republishRecord", input |-> republishingRecord_input(c)]
      [] OTHER -> NoTask

\* ------------------------------------------------------ transition steps
\* A transition to another state: the source's exit actions, then the
\* transition's own actions (act, applied by the caller to the context after
\* exit), then the target's entry actions, then the target's invocation.
Goto(ev, target, c2, file) ==
    /\ lastEvent' = ev
    /\ state' = target
    /\ context' = EntryOf(target, c2)
    /\ task' = InvokeOf(target, EntryOf(target, c2), file)

\* A transition without a target, or an internal self-transition.  A
\* root-level event is kept in lastEvent only when its type is observed.
Stay(ev, c2, observed) ==
    /\ lastEvent' = IF ev.type \in StateEvents \cup observed THEN ev ELSE lastEvent
    /\ context' = c2
    /\ UNCHANGED <<state, task>>

\* ------------------------------------------- assigns of the transitions
\* variant: the other fields of formData are not carried over
on_UPDATE_FORM_alone(c, field, value) ==
    [c EXCEPT !.formData =
        [f \in {field} |-> IF field = "value" THEN value ELSE NumberOf(value)]]

on_UPDATE_FORM(c, field, value) ==
    [c EXCEPT !.formData =
        [f \in DOMAIN c.formData \cup {field} |->
            IF f = field
            THEN (IF field = "value" THEN value ELSE NumberOf(value))
            ELSE c.formData[f]]]

\* variant: the value is never validated
on_UPDATE_NAME_unvalidated(c, value, validate) ==
    [c EXCEPT !.nameInput = value, !.nameValidationError = FALSE]

\* variant: without validate the flag is left as it is
on_UPDATE_NAME_sticky(c, value, validate) ==
    [c EXCEPT !.nameInput = value,
              !.nameValidationError = IF ~validate THEN c.nameValidationError
                                      ELSE ~ValidName(value)]

on_UPDATE_NAME(c, value, validate) ==
    [c EXCEPT !.nameInput = value,
              !.nameValidationError = IF ~validate THEN FALSE ELSE ~ValidName(value)]

on_UPDATE_PRIVATE_KEY_INPUT(c, value) ==
    [c EXCEPT !.privateKeyInput = value, !.privateKeyError = Null]

on_OPEN_IMPORT_DIALOG(c) == [c EXCEPT !.importDialogOpen = TRUE, !.privateKeyError = Null]

on_CLOSE_IMPORT_DIALOG(c) == [c EXCEPT !.importDialogOpen = FALSE]

\* variant: the resolved client is not stored
init_onDone_nohandle(c, output) == [c EXCEPT !.heliaInstance = output.helia]
init_onDone(c, output) == [c EXCEPT !.ipns = output.ipns, !.heliaInstance = output.helia]
init_onError(c, err) == [c EXCEPT !.error = err]

\* variant: the record is always cleared
inspect_UPDATE_MODE_clear(c) ==
    [c EXCEPT !.nameInput = <<>>, !.nameValidationError = FALSE, !.record = NoRecord]
inspect_UPDATE_MODE(c) ==
    [c EXCEPT !.nameInput = <<>>,
              !.nameValidationError = FALSE,
              !.record = IF c.name = getIPNSNameFromKeypair(c.keypair) THEN c.record ELSE NoRecord]

\* variant: the displayed record is kept until the import completes
inspect_IMPORT_RECORD_keep(c) ==
    [c EXCEPT !.nameInput = <<>>, !.nameValidationError = FALSE, !.publishSuccess = FALSE]
inspect_IMPORT_RECORD(c) ==
    [c EXCEPT !.nameInput = <<>>, !.nameValidationError = FALSE,
              !.record = NoRecord, !.publishSuccess = FALSE]

inspect_PUBLISH_RECORD_guard(c) == c.record # NoRecord

verifyAndFetch_onDone(c, output) == [c EXCEPT !.record = output.record, !.name = c.nameInput]
\* variant: a failed fetch clears the record
verifyAndFetch_onError_clear(c, err) ==
    [c EXCEPT !.fetchingRecord = FALSE, !.error = err, !.record = NoRecord]
verifyAndFetch_onError(c, err) == [c EXCEPT !.fetchingRecord = FALSE, !.error = err]

\* variant: the record of the old key is kept
create_GENERATE_NEW_KEY_keep(c) == [c EXCEPT !.keypair = NoKey]
create_GENERATE_NEW_KEY(c) == [c EXCEPT !.keypair = NoKey, !.record = NoRecord]

\* variant: the input is not trimmed
create_IMPORT_PRIVATE_KEY_guard_untrimmed(c) == c.privateKeyInput = <<>>
create_IMPORT_PRIVATE_KEY_guard(c) == Trim(c.privateKeyInput) = <<>>
create_IMPORT_PRIVATE_KEY_empty(c) == [c EXCEPT !.privateKeyError = "Private key cannot be empty"]
create_IMPORT_PRIVATE_KEY_import(c) == [c EXCEPT !.privateKeyError = Null]

generatingKey_onDone(c, output) == [c EXCEPT !.keypair = output.keypair]
\* variant: a failed key generation discards the client
generatingKey_onError_reset(c, err) ==
    [c EXCEPT !.error = err, !.ipns = NoClient, !.heliaInstance = NoClient]
generatingKey_onError(c, err) == [c EXCEPT !.error = err]

\* variant: the name is taken from the name field, as a fetch does
creatingRecord_onDone_input(c, output) ==
    [c EXCEPT !.record = output, !.name = c.nameInput, !.error = Null, !.publishSuccess = FALSE]
creatingRecord_onDone(c, output) ==
    [c EXCEPT !.record = output,
              !.name = getIPNSNameFromKeypair(c.keypair),
              !.error = Null,
              !.publishSuccess = FALSE]
creatingRecord_onError(c, err) == [c EXCEPT !.error = err, !.record = NoRecord]

publishingRecord_onDone(c, output) ==
    [c EXCEPT !.record = output, !.publishSuccess = TRUE, !.error = Null]
\* variant: a failed publication clears the record, as a failed creation does
publishingRecord_onError_clear(c, err) ==
    [c EXCEPT !.error = err, !.publishSuccess = FALSE, !.record = NoRecord]
publishingRecord_onError(c, err) == [c EXCEPT !.error = err, !.publishSuccess = FALSE]

importingRecord_onDone(c, output) ==
    [c EXCEPT !.record = output.record, !.name = output.name, !.error = Null]
importingRecord_onError(c, err) == [c EXCEPT !.error = err, !.record = NoRecord]

importingPrivateKey_onDone(c, output) ==
    [c EXCEPT !.keypair = output.keypair, !.error = Null, !.privateKeyInput = <<>>,
              !.privateKeyError = Null, !.importDialogOpen = FALSE]
\* variant: the failure closes the dialog and clears the input
importingPrivateKey_onError_close(c) ==
    [c EXCEPT !.privateKeyError = "Invalid private key format", !.privateKeyInput = <<>>,
              !.importDialogOpen = FALSE]
importingPrivateKey_onError(c) == [c EXCEPT !.privateKeyError = "Invalid private key format"]

republishingRecord_onDone(c) == [c EXCEPT !.publishSuccess = TRUE, !.error = Null]
\* variant: a failed republication clears the record, as a failed creation does
republishingRecord_onError_clear(c, err) ==
    [c EXCEPT !.error = err, !.publishSuccess = FALSE, !.record = NoRecord]
republishingRecord_onError(c, err) == [c EXCEPT !.error = err, !.publishSuccess = FALSE]

\* ---------------------------------------------------------------- actions
\* the state nodes whose `on` holds the handlers below
\* variant: the handlers of inspect stay active during a fetch
inspect_on_fetching(s) == s \in {"inspect", "verifyAndFetch"}
inspect_on(s) == s = "inspect"
create_on(s) == s = "create"

\* root-level handlers: taken in every state, no target
UPDATE_FORM(forms, observed) ==
    /\ state \in States
    /\ \E e \in forms :
        Stay([type |-> "UPDATE_FORM", field |-> e.field, value |-> e.value],
             on_UPDATE_FORM(context, e.field, e.value), observed)

UPDATE_NAME(names, observed) ==
    /\ state \in States
    /\ \E value \in names, validate \in BOOLEAN :
        Stay([type |-> "UPDATE_NAME", value |-> value, validate |-> validate],
             on_UPDATE_NAME(context, value, validate), observed)

UPDATE_PRIVATE_KEY_INPUT(keyTexts, observed) ==
    /\ state \in States
    /\ \E value \in keyTexts :
        Stay([type |-> "UPDATE_PRIVATE_KEY_INPUT", text |-> value],
             on_UPDATE_PRIVATE_KEY_INPUT(context, value), observed)

OPEN_IMPORT_DIALOG(observed) ==
    /\ state \in States
    /\ Stay(Event("OPEN_IMPORT_DIALOG"), on_OPEN_IMPORT_DIALOG(context), observed)

CLOSE_IMPORT_DIALOG(observed) ==
    /\ state \in States
    /\ Stay(Event("CLOSE_IMPORT_DIALOG"), on_CLOSE_IMPORT_DIALOG(context), observed)

\* handlers of the state inspect
INSPECT_NAME ==
    /\ inspect_on(state)
    /\ Goto(Event("INSPECT_NAME"), "verifyAndFetch", ExitOf(state, context), NoFile)

UPDATE_MODE_inspect ==
    /\ inspect_on(state)
    /\ \E m \in Modes :
        Goto([type |-> "UPDATE_MODE", value |-> m], "create",
             inspect_UPDATE_MODE(ExitOf(state, context)), NoFile)

IMPORT_RECORD(files) ==
    /\ inspect_on(state)
    /\ \E file \in files :
        Goto(Event("IMPORT_RECORD"), "importingRecord",
             inspect_IMPORT_RECORD(ExitOf(state, context)), file)

PUBLISH_RECORD_inspect ==
    /\ inspect_on(state)
    /\ inspect_PUBLISH_RECORD_guard(context)
    /\ Goto(Event("PUBLISH_RECORD"), "republishingRecord", ExitOf(state, context), NoFile)

\* handlers of the state create
CREATE_RECORD ==
    /\ create_on(state)
    /\ Goto(Event("CREATE_RECORD"), "creatingRecord", ExitOf(state, context), NoFile)

PUBLISH_RECORD_create ==
    /\ create_on(state)
    /\ Goto(Event("PUBLISH_RECORD"), "publishingRecord", ExitOf(state, context), NoFile)

UPDATE_MODE_create ==
    /\ create_on(state)
    /\ \E m \in Modes :
        Goto([type |-> "UPDATE_MODE", value |-> m], "inspect", ExitOf(state, context), NoFile)

GENERATE_NEW_KEY ==
    /\ create_on(state)
    /\ Goto(Event("GENERATE_NEW_KEY"), "generatingKey",
            create_GENERATE_NEW_KEY(ExitOf(state, context)), NoFile)

IMPORT_PRIVATE_KEY_empty ==
    /\ create_on(state)
    /\ create_IMPORT_PRIVATE_KEY_guard(context)
    /\ Stay(Event("IMPORT_PRIVATE_KEY"), create_IMPORT_PRIVATE_KEY_empty(context), {})

IMPORT_PRIVATE_KEY_import ==
    /\ create_on(state)
    /\ ~create_IMPORT_PRIVATE_KEY_guard(context)
    /\ Goto(Event("IMPORT_PRIVATE_KEY"), "importingPrivateKey",
            create_IMPORT_PRIVATE_KEY_import(ExitOf(state, context)), NoFile)

\* an event the current state has no enabled transition for is dropped
Handles(s, c, type) ==
    \/ inspect_on(s) /\ type \in {"INSPECT_NAME", "UPDATE_MODE", "IMPORT_RECORD"}
    \/ inspect_on(s) /\ type = "PUBLISH_RECORD" /\ inspect_PUBLISH_RECORD_guard(c)
    \/ create_on(s) /\ type \in {"CREATE_RECORD", "PUBLISH_RECORD", "UPDATE_MODE",
                                 "GENERATE_NEW_KEY", "IMPORT_PRIVATE_KEY"}

Unhandled ==
    /\ state \in States
    /\ \E type \in StateEvents :
        /\ ~Handles(state, context, type)
        /\ Stay(Event(type), context, {})

\* completions of the invoked actors: the targets of onDone and onError
OnDoneTarget(s) ==
    CASE s \in {"init", "verifyAndFetch", "importingRecord", "republishingRecord"} -> "inspect"
      [] s \in {"generatingKey", "creatingRecord", "publishingRecord", "importingPrivateKey"} -> "create"

\* variant: a failed fetch re-enters verifyAndFetch
OnErrorTarget_retry(s) ==
    CASE s \in {"init", "importingRecord", "republishingRecord"} -> "inspect"
      [] s = "verifyAndFetch" -> "verifyAndFetch"
      [] s \in {"generatingKey", "creatingRecord", "publishingRecord", "importingPrivateKey"} -> "create"

OnErrorTarget(s) ==
    CASE s \in {"init", "verifyAndFetch", "importingRecord", "republishingRecord"} -> "inspect"
      [] s \in {"generatingKey", "creatingRecord", "publishingRecord", "importingPrivateKey"} -> "create"

\* xstate.done.actor.<id> and xstate.error.actor.<id> of the state's invocation
DoneEvent(s) == [type |-> "xstate.done.actor", value |-> s]
ErrorEvent(s) == [type |-> "xstate.error.actor", value |-> s]

init_done ==
    /\ state = "init"
    /\ \E o \in Outcomes(task) :
        /\ o.ok
        /\ Goto(DoneEvent(state), OnDoneTarget(state), init_onDone(ExitOf(state, context), o.output), NoFile)

init_error ==
    /\ state = "init"
    /\ \E o \in Outcomes(task) :
        /\ ~o.ok
        /\ Goto(ErrorEvent(state), OnErrorTarget(state), init_onError(ExitOf(state, context), o.error), NoFile)

\* variant: the completion of a fetch is also applied after its state was left
verifyAndFetch_done_stale ==
    /\ state \in {"verifyAndFetch", "inspect"}
    /\ \E o \in fetchRecord(verifyAndFetch_input(context)) :
        /\ o.ok
        /\ Goto(DoneEvent("verifyAndFetch"), "inspect",
                verifyAndFetch_onDone(ExitOf(state, context), o.output), NoFile)

verifyAndFetch_done ==
    /\ state = "verifyAndFetch"
    /\ \E o \in Outcomes(task) :
        /\ o.ok
        /\ Goto(DoneEvent(state), OnDoneTarget(state), verifyAndFetch_onDone(ExitOf(state, context), o.output), NoFile)

verifyAndFetch_error ==
    /\ state = "verifyAndFetch"
    /\ \E o \in Outcomes(task) :
        /\ ~o.ok
        /\ Goto(ErrorEvent(state), OnErrorTarget(state), verifyAndFetch_onError(ExitOf(state, context), o.error), NoFile)

generatingKey_done ==
    /\ state = "generatingKey"
    /\ \E o \in Outcomes(task) :
        /\ o.ok
        /\ Goto(DoneEvent(state), OnDoneTarget(state), generatingKey_onDone(ExitOf(state, context), o.output), NoFile)

generatingKey_error ==
    /\ state = "generatingKey"
    /\ \E o \in Outcomes(task) :
        /\ ~o.ok
        /\ Goto(ErrorEvent(state), OnErrorTarget(state), generatingKey_onError(ExitOf(state, context), o.error), NoFile)

creatingRecord_done ==
    /\ state = "creatingRecord"
    /\ \E o \in Outcomes(task) :
        /\ o.ok
        /\ Goto(DoneEvent(state), OnDoneTarget(state), creatingRecord_onDone(ExitOf(state, context), o.output), NoFile)

creatingRecord_error ==
    /\ state = "creatingRecord"
    /\ \E o \in Outcomes(task) :
        /\ ~o.ok
        /\ Goto(ErrorEvent(state), OnErrorTarget(state), creatingRecord_onError(ExitOf(state, context), o.error), NoFile)

publishingRecord_done ==
    /\ state = "publishingRecord"
    /\ \E o \in Outcomes(task) :
        /\ o.ok
        /\ Goto(DoneEvent(state), OnDoneTarget(state), publishingRecord_onDone(ExitOf(state, context), o.output), NoFile)

publishingRecord_error ==
    /\ state = "publishingRecord"
    /\ \E o \in Outcomes(task) :
        /\ ~o.ok
        /\ Goto(ErrorEvent(state), OnErrorTarget(state), publishingRecord_onError(ExitOf(state, context), o.error), NoFile)

importingRecord_done ==
    /\ state = "importingRecord"
    /\ \E o \in Outcomes(task) :
        /\ o.ok
        /\ Goto(DoneEvent(state), OnDoneTarget(state), importingRecord_onDone(ExitOf(state, context), o.output), NoFile)

importingRecord_error ==
    /\ state = "importingRecord"
    /\ \E o \in Outcomes(task) :
        /\ ~o.ok
        /\ Goto(ErrorEvent(state), OnErrorTarget(state), importingRecord_onError(ExitOf(state, context), o.error), NoFile)

importingPrivateKey_done ==
    /\ state = "importingPrivateKey"
    /\ \E o \in Outcomes(task) :
        /\ o.ok
        /\ Goto(DoneEvent(state), OnDoneTarget(state), importingPrivateKey_onDone(ExitOf(state, context), o.output), NoFile)

importingPrivateKey_error ==
    /\ state = "importingPrivateKey"
    /\ \E o \in Outcomes(task) :
        /\ ~o.ok
        /\ Goto(ErrorEvent(state), OnErrorTarget(state), importingPrivateKey_onError(ExitOf(state, context)), NoFile)

republishingRecord_done ==
    /\ state = "republishingRecord"
    /\ \E o \in Outcomes(task) :
        /\ o.ok
        /\ Goto(DoneEvent(state), OnDoneTarget(state), republishingRecord_onDone(ExitOf(state, context)), NoFile)

republishingRecord_error ==
    /\ state = "republishingRecord"
    /\ \E o \in Outcomes(task) :
        /\ ~o.ok
        /\ Goto(ErrorEvent(state), OnErrorTarget(state), republishingRecord_onError(ExitOf(state, context), o.error), NoFile)

UserEvent(names, keyTexts, forms, files, observed) ==
    \/ UPDATE_FORM(forms, observed)
    \/ UPDATE_NAME(names, observed)
    \/ UPDATE_PRIVATE_KEY_INPUT(keyTexts, observed)
    \/ OPEN_IMPORT_DIALOG(observed)
    \/ CLOSE_IMPORT_DIALOG(observed)
    \/ INSPECT_NAME
    \/ UPDATE_MODE_inspect
    \/ IMPORT_RECORD(files)
    \/ PUBLISH_RECORD_inspect
    \/ CREATE_RECORD
    \/ PUBLISH_RECORD_create
    \/ UPDATE_MODE_create
    \/ GENERATE_NEW_KEY
    \/ IMPORT_PRIVATE_KEY_empty
    \/ IMPORT_PRIVATE_KEY_import
    \/ Unhandled

Completion ==
    \/ init_done
    \/ init_error
    \/ verifyAndFetch_done
    \/ verifyAndFetch_error
    \/ generatingKey_done
    \/ generatingKey_error
    \/ creatingRecord_done
    \/ creatingRecord_error
    \/ publishingRecord_done
    \/ publishingRecord_error
    \/ importingRecord_done
    \/ importingRecord_error
    \/ importingPrivateKey_done
    \/ importingPrivateKey_error
    \/ republishingRecord_done
    \/ republishingRecord_error

Next == UserEvent(NameTexts, PrivateKeyTexts, FormEvents, Files, {}) \/ Completion

Spec == Init /\ [][Next]_vars

\* Every launched task eventually completes: the promise behind an invoked
\* actor settles, and its completion event is then processed.
LiveNext == UserEvent(OneName, PrivateKeyTexts, OneFormEvent, Files, {}) \/ Completion

LiveSpec == Init /\ [][LiveNext]_vars /\ WF_vars(Completion)

\* The machine under every kind of record file
ImportNext == UserEvent(OneName, PrivateKeyTexts, OneFormEvent, ImportFiles, {}) \/ Completion

ImportSpec == Init /\ [][ImportNext]_vars

\* The name functions on their own: the argument (a keypair or a text) is
\* in context, the parsed identity in task, the name derived from its public
\* key in lastEvent.
PeerIdInit ==
    /\ state = "input"
    /\ context \in {[keypair |-> k] : k \in Keys \cup {NoKey}} \cup {[text |-> t] : t \in Texts}
    /\ task = NoTask
    /\ lastEvent = Event("xstate.init")

NameOfKeypair ==
    /\ state = "input"
    /\ "keypair" \in DOMAIN context
    /\ state' = "named"
    /\ context' = [keypair |-> context.keypair,
                   text |-> getIPNSNameFromKeypair(context.keypair)]
    /\ UNCHANGED <<task, lastEvent>>

ParseName ==
    /\ state \in {"input", "named"}
    /\ "text" \in DOMAIN context
    /\ state' = "parsed"
    /\ task' = getPeerIdFromString(context.text)
    /\ UNCHANGED <<context, lastEvent>>

NameOfPublicKey ==
    /\ state = "parsed"
    /\ task.ok
    /\ task.output.publicKey # NoKey
    /\ state' = "renamed"
    /\ lastEvent' = [type |-> "name", text |-> getIPNSNameFromPublicKey(task.output.publicKey)]
    /\ UNCHANGED <<context, task>>

PeerIdNext == NameOfKeypair \/ ParseName \/ NameOfPublicKey

PeerIdSpec == PeerIdInit /\ [][PeerIdNext]_vars

\* The machine under every kind of private-key text
KeyNext == UserEvent(OneName, AllKeyTexts, OneFormEvent, Files, {}) \/ Completion

KeySpec == Init /\ [][KeyNext]_vars

\* The machine under every kind of name text, UPDATE_NAME observed
NameNext == UserEvent(AllNameTexts, PrivateKeyTexts, OneFormEvent, Files, {"UPDATE_NAME"}) \/ Completion

NameSpec == Init /\ [][NameNext]_vars

\* The machine under updates of every form field, UPDATE_FORM observed
FormNext == UserEvent(OneName, PrivateKeyTexts, AllFormEvents, Files, {"UPDATE_FORM"}) \/ Completion

FormSpec == Init /\ [][FormNext]_vars

\* ---------------------------------------------------------- properties
StableStates == {"inspect", "create"}
TaskStates == States \ (StableStates \cup {"init"})
BusyStates == States \ StableStates

\* the outputs the in-flight task can complete with
TaskOutputs == {o.output : o \in {x \in Outcomes(task) : x.ok}}

\* C1: whenever a record is held, `name` denotes the identity whose key the
\* record is signed under (the identity it was fetched, created or imported
\* under).
C1_RecordNameConsistent ==
    context.record # NoRecord =>
        /\ ValidName(context.name)
        /\ peerIdFromString(context.name).key = context.record.key

\* C2: when the task of publishingRecord completes successfully, the machine
\* is in create with record = the task's result, publishSuccess = TRUE and
\* error = null once the transition (entry actions included) has finished.
C2_PublishDone ==
    [][(state = "publishingRecord" /\ lastEvent' = DoneEvent("publishingRecord")) =>
          /\ state' = "create"
          /\ context'.record \in TaskOutputs
          /\ context'.publishSuccess = TRUE
          /\ context'.error = Null]_vars

\* C3: in create, a held record is signed by the current keypair whenever
\* both are defined.
C3_RecordOfCurrentKeypair ==
    (state = "create" /\ context.record # NoRecord /\ context.keypair # NoKey) =>
        context.record.key = context.keypair

\* C4: after a successful verifyAndFetch, record is the resolved record and
\* name is the name that was passed to the resolution task, whatever
\* UPDATE_NAME events were handled while the fetch was in flight.
C4_FetchDoneName ==
    [][(state = "verifyAndFetch" /\ lastEvent' = DoneEvent("verifyAndFetch")) =>
          /\ context'.record \in {o.record : o \in TaskOutputs}
          /\ context'.name = task.input.name]_vars

\* C5: the record-construction task is never launched without a keypair.
C5_NoConstructionWithoutKeypair ==
    state \in {"creatingRecord", "publishingRecord"} => task.input.keypair # NoKey

\* C6: IMPORT_RECORD, GENERATE_NEW_KEY and the completions of verifyAndFetch,
\* creatingRecord and importingRecord leave publishSuccess = FALSE.
C6_RecordMutationResetsPublishSuccess ==
    [][(\/ state = "inspect" /\ state' = "importingRecord"
        \/ state = "create" /\ state' = "generatingKey"
        \/ state = "verifyAndFetch" /\ lastEvent' = DoneEvent(state)
        \/ /\ state \in {"creatingRecord", "importingRecord"}
           /\ lastEvent' \in {DoneEvent(state), ErrorEvent(state)})
          => context'.publishSuccess = FALSE]_vars

\* C7: while an asynchronous operation started by the user is in flight,
\* error is null.
C7_ErrorClearedWhileInFlight ==
    state \in TaskStates => context.error = Null

\* C8: fetchingRecord and publishingRecord are never both true;
\* fetchingRecord is true exactly in verifyAndFetch, publishingRecord exactly
\* in publishingRecord and republishingRecord.
C8_FlagsMatchState ==
    /\ ~(context.fetchingRecord /\ context.publishingRecord)
    /\ context.fetchingRecord <=> (state = "verifyAndFetch")
    /\ context.publishingRecord <=> (state \in {"publishingRecord", "republishingRecord"})

\* a fetch is in flight while an earlier record is still held: its flag is
\* set, the publishing flag is not
C8_Witness ==
    /\ state = "verifyAndFetch"
    /\ context.fetchingRecord
    /\ ~context.publishingRecord
    /\ context.record # NoRecord
    /\ lastEvent = Event("INSPECT_NAME")

\* C9: in init and in every task state the state events change neither the
\* state nor the context and launch no second task.
C9_BusyIgnoresStateEvents ==
    [][(state \in BusyStates /\ lastEvent' # lastEvent /\ lastEvent'.type \in StateEvents) =>
          UNCHANGED <<state, context, task>>]_vars

\* a state event has been delivered, and dropped, while a task was in flight
C9_Witness ==
    /\ state = "republishingRecord"
    /\ lastEvent = Event("GENERATE_NEW_KEY")

\* C10: if every launched task eventually completes, the machine reaches
\* inspect or create again and again from wherever it is, and every task
\* failure leads to inspect or create.
C10_AlwaysBackToStable ==
    /\ []<>(state \in StableStates)
    /\ [][lastEvent' = ErrorEvent(state) => state' \in StableStates]_vars

\* a task has failed and the machine is back in a stable state
C10_Witness ==
    /\ state \in StableStates
    /\ lastEvent.type = "xstate.error.actor"
    /\ context.error # Null

\* the fields of the context no root-level event assigns
Initial(c) ==
    /\ c.name = <<>>
    /\ c.record = NoRecord
    /\ c.keypair = NoKey
    /\ ~c.fetchingRecord
    /\ ~c.publishingRecord
    /\ ~c.publishSuccess

C12_CreatingRecordCompletion ==
    [][state = "creatingRecord" =>
          /\ context.keypair = task.input.keypair
          /\ context'.keypair = context.keypair
          /\ lastEvent' = DoneEvent("creatingRecord") =>
                /\ state' = "create"
                /\ context'.record \in TaskOutputs
                /\ context'.name = getIPNSNameFromKeypair(task.input.keypair)
                /\ context'.error = Null
                /\ ~context'.publishSuccess
          /\ lastEvent' = ErrorEvent("creatingRecord") =>
                /\ state' = "create"
                /\ context'.record = NoRecord
                /\ context'.error # Null]_vars

\* a record has been created while the name field held another text
C12_Witness ==
    /\ state = "create"
    /\ lastEvent = DoneEvent("creatingRecord")
    /\ context.record # NoRecord
    /\ context.nameInput # <<>>
    /\ context.name = getIPNSNameFromKeypair(context.keypair)

\* C13: GENERATE_NEW_KEY clears keypair and record before key generation
\* starts; on success the machine is in create with a keypair and no record,
\* on failure in create with error set and no keypair.
C13_GenerateNewKey ==
    [][/\ state' = "generatingKey" =>
             context'.keypair = NoKey /\ context'.record = NoRecord
       /\ (state = "generatingKey" /\ lastEvent' = DoneEvent("generatingKey")) =>
             /\ state' = "create"
             /\ context'.keypair # NoKey
             /\ context'.record = NoRecord
       /\ (state = "generatingKey" /\ lastEvent' = ErrorEvent("generatingKey")) =>
             /\ state' = "create"
             /\ context'.error # Null
             /\ context'.keypair = NoKey]_vars

\* key generation has been started although a name from an earlier record
\* is still held: keypair and record are cleared
C13_Witness ==
    /\ state = "generatingKey"
    /\ context.name # <<>>
    /\ context.keypair = NoKey
    /\ context.record = NoRecord

\* C14: republishing completes with a network result (success or a network
\* failure) only if record, a non-empty name and the client were all present
\* when republishingRecord was entered; otherwise it ends in inspect with the
\* precondition error and publishSuccess false.
Missing(input) ==
    input.record = NoRecord \/ input.name = <<>> \/ input.ipns = NoClient

C14_RepublishPrecondition ==
    [][(state = "republishingRecord" /\ state' # state) =>
          /\ task.input = [record |-> context.record, name |-> context.name, ipns |-> context.ipns]
          /\ Missing(task.input) =>
                /\ lastEvent' = ErrorEvent("republishingRecord")
                /\ state' = "inspect"
                /\ context'.error = "Missing required parameters"
                /\ ~context'.publishSuccess
          /\ ~Missing(task.input) =>
                context'.error # "Missing required parameters"]_vars

\* a republish of a held record with an empty name has been refused
C14_Witness ==
    /\ state = "inspect"
    /\ lastEvent = ErrorEvent("republishingRecord")
    /\ context.error = "Missing required parameters"
    /\ context.record # NoRecord
    /\ context.name = <<>>
    /\ context.ipns # NoClient

\* C16: UPDATE_MODE handled in inspect leaves nameInput empty and
\* nameValidationError false; record is kept if name is the name of the
\* current keypair (the empty string without a keypair) and undefined
\* otherwise.
C16_UpdateModeInspect ==
    [][(state = "inspect" /\ state' = "create") =>
          /\ context'.nameInput = <<>>
          /\ ~context'.nameValidationError
          /\ context'.record =
                IF context.name = getIPNSNameFromKeypair(context.keypair)
                THEN context.record ELSE NoRecord]_vars

\* the record created by the current keypair is shown again in create
C16_Witness ==
    /\ state = "create"
    /\ lastEvent.type = "UPDATE_MODE"
    /\ context.record # NoRecord
    /\ context.name = getIPNSNameFromKeypair(context.keypair)

\* C17: UPDATE_MODE{value: m} handled in inspect or create ends in the state
\* named by m.
C17_UpdateModeValue ==
    [][(state \in StableStates /\ state' \in StableStates /\ state' # state) =>
          /\ lastEvent'.type = "UPDATE_MODE"
          /\ state' = lastEvent'.value]_vars

\* The ways a record import fails: no file, undecodable bytes, an embedded
\* key the signature does not verify under, a file name no identity with a
\* public key can be inferred from, a signature that does not verify under
\* the key of the file name
ImportFails(file) ==
    \/ file = NoFile
    \/ file.bytes = Garbage
    \/ /\ file.bytes.pubKey # NoKey
       /\ file.bytes.key # file.bytes.pubKey
    \/ /\ file.bytes.pubKey = NoKey
       /\ \/ ~ValidName(BaseName(file.name))
          \/ BaseName(file.name)[1] = "Q"
          \/ file.bytes.key # BaseName(file.name)[2]

\* The name a successful import infers: from the embedded key if there is
\* one, else the file name up to its first dot
InferredName(file) ==
    IF file.bytes.pubKey # NoKey THEN <<"k", file.bytes.pubKey>> ELSE BaseName(file.name)

\* C15: a failing record import (no file, undecodable bytes, embedded key
\* failing the signature check, no identity inferable from the file name,
\* signature failing under the key of the file name) ends in inspect with
\* record undefined and error set; a successful import ends in inspect with
\* the record and the inferred name stored and error null.
C15_ImportOutcomes ==
    [][(state = "importingRecord" /\ state' # state) =>
          /\ state' = "inspect"
          /\ IF ImportFails(task.input.file)
             THEN /\ context'.record = NoRecord
                  /\ context'.error # Null
                  /\ lastEvent' = ErrorEvent("importingRecord")
             ELSE /\ context'.record = task.input.file.bytes
                  /\ context'.name = InferredName(task.input.file)
                  /\ context'.error = Null
                  /\ lastEvent' = DoneEvent("importingRecord")]_vars

C15_Witness ==
    /\ state = "inspect"
    /\ lastEvent = ErrorEvent("importingRecord")
    /\ context.error = CouldNotInfer
    /\ context.record = NoRecord

\* A step that handles an observed root-level event of the given type
Handled(type) == lastEvent' # lastEvent /\ lastEvent'.type = type

\* C18: UPDATE_NAME is accepted in every state and never changes the state:
\* it sets nameInput to the event value, and when validate is set it sets
\* nameValidationError to true iff the value does not parse as an identity
\* (the empty text does not); no other context field changes.
C18_UpdateName ==
    [][/\ \A s \in States : state = s => ENABLED UPDATE_NAME(AllNameTexts, {"UPDATE_NAME"})
       /\ Handled("UPDATE_NAME") =>
             /\ state' = state
             /\ task' = task
             /\ context'.nameInput = lastEvent'.value
             /\ lastEvent'.validate =>
                   (context'.nameValidationError <=> ~ValidName(lastEvent'.value))
             /\ lastEvent'.validate /\ lastEvent'.value = <<>> =>
                   context'.nameValidationError
             /\ context' = [context EXCEPT
                               !.nameInput = context'.nameInput,
                               !.nameValidationError = context'.nameValidationError]]_vars

C18_Witness ==
    /\ state = "verifyAndFetch"
    /\ lastEvent.type = "UPDATE_NAME"
    /\ lastEvent.validate
    /\ lastEvent.value = <<>>
    /\ context.nameValidationError

\* C19: UPDATE_FORM is accepted in every state and never changes the state:
\* it replaces only the named field of formData (value as the given string,
\* any other field as the number parsed from it) and leaves the other fields
\* of formData and the rest of the context unchanged, so formData always has
\* its value, lifetime and ttl entries.
C19_UpdateForm ==
    [][/\ \A s \in States : state = s => ENABLED UPDATE_FORM(AllFormEvents, {"UPDATE_FORM"})
       /\ {"value", "lifetime", "ttlMs"} \subseteq DOMAIN context'.formData
       /\ Handled("UPDATE_FORM") =>
             /\ state' = state
             /\ task' = task
             /\ DOMAIN context'.formData = DOMAIN context.formData \cup {lastEvent'.field}
             /\ IF lastEvent'.field = "value"
                THEN context'.formData.value = lastEvent'.value
                ELSE context'.formData[lastEvent'.field] = NumberOf(lastEvent'.value)
             /\ \A f \in DOMAIN context.formData \ {lastEvent'.field} :
                   context'.formData[f] = context.formData[f]
             /\ context' = [context EXCEPT !.formData = context'.formData]]_vars

C19_Witness ==
    /\ state = "creatingRecord"
    /\ lastEvent = [type |-> "UPDATE_FORM", field |-> "lifetime", value |-> "604800000"]
    /\ context.formData.lifetime = 604800000
    /\ context.formData.value = "bafyother"
    /\ context.formData.ttlMs = DEFAULT_TTL_MS

RecordTaskStates == {"creatingRecord", "publishingRecord"}

\* C20: the task launched by CREATE_RECORD or PUBLISH_RECORD receives the
\* value, lifetime and ttl formData holds when its state is entered, with
\* publish false in creatingRecord and true in publishingRecord; UPDATE_FORM
\* events handled while it is in flight do not affect it, so the record it
\* constructs has the value, lifetime and ttl it was launched with.
C20_TaskFormData ==
    [][/\ (state' \in RecordTaskStates /\ state' # state) =>
             /\ task'.src = "createRecord"
             /\ task'.input.formData = context.formData
             /\ task'.input.formData = context'.formData
             /\ task'.input.publish = (state' = "publishingRecord")
       /\ (state \in RecordTaskStates /\ state' = state) => task' = task
       /\ (state \in RecordTaskStates /\ lastEvent' = DoneEvent(state)) =>
             /\ context'.record.value = task.input.formData.value
             /\ context'.record.lifetime = task.input.formData.lifetime
             /\ context'.record.ttl = task.input.formData.ttlMs]_vars

C20_Witness ==
    /\ state = "create"
    /\ lastEvent = DoneEvent("creatingRecord")
    /\ context.record # NoRecord
    /\ context.record.lifetime = DEFAULT_LIFETIME_MS
    /\ context.formData.lifetime = 604800000

\* A text that is empty or made of blanks only
Blank(t) == \A i \in 1..Len(t) : t[i] = " "

\* C21: IMPORT_PRIVATE_KEY handled in create with a blank privateKeyInput
\* stays in create, sets privateKeyError, launches no task and leaves keypair,
\* record, error and publishSuccess unchanged; with a non-blank input it
\* clears privateKeyError and enters importingPrivateKey.
C21_ImportPrivateKey ==
    [][/\ (state = "create" /\ Handled("IMPORT_PRIVATE_KEY")) =>
             IF Blank(context.privateKeyInput)
             THEN /\ state' = "create"
                  /\ task' = NoTask
                  /\ context'.privateKeyError # Null
                  /\ context' = [context EXCEPT !.privateKeyError = context'.privateKeyError]
             ELSE /\ state' = "importingPrivateKey"
                  /\ task'.src = "importPrivateKey"
                  /\ context'.privateKeyError = Null
       /\ (state' = "importingPrivateKey" /\ state # state') =>
             /\ state = "create"
             /\ ~Blank(context.privateKeyInput)]_vars

C21_Witness ==
    /\ state = "create"
    /\ lastEvent = Event("IMPORT_PRIVATE_KEY")
    /\ context.privateKeyInput = <<" ">>
    /\ context.privateKeyError = "Private key cannot be empty"
    /\ context.keypair # NoKey
    /\ context.record # NoRecord

C23_RepublishingCompletion ==
    [][(state = "republishingRecord" /\ state' # state) =>
          /\ state' = "inspect"
          /\ IF lastEvent' = DoneEvent("republishingRecord")
             THEN context'.publishSuccess /\ context'.error = Null
             ELSE /\ lastEvent' = ErrorEvent("republishingRecord")
                  /\ context'.error # Null
                  /\ ~context'.publishSuccess
          /\ context'.record = context.record
          /\ context'.name = context.name
          /\ context'.keypair = context.keypair]_vars

C23_Witness ==
    /\ state = "inspect"
    /\ lastEvent = ErrorEvent("republishingRecord")
    /\ context.error = "RepublishFailed"
    /\ context.record # NoRecord
    /\ context.keypair # NoKey

\* C24: the client handle (ipns, heliaInstance) is written only by the
\* successful completion of init; init is never re-entered, and after init
\* no event or completion changes the handle.
C24_ClientHandle ==
    [][/\ (context'.ipns # context.ipns \/ context'.heliaInstance # context.heliaInstance) =>
             /\ state = "init"
             /\ lastEvent' = DoneEvent("init")
       /\ state' = "init" => state = "init"]_vars

C24_Witness ==
    /\ state = "create"
    /\ lastEvent = ErrorEvent("generatingKey")
    /\ context.ipns = "ipns"
    /\ context.heliaInstance = "helia"

\* the actor a state invokes
ActorOf(s) == IF s = "init" THEN "initHelia" ELSE InvokeOf(s, context, NoFile).src

CompletionTypes == {"xstate.done.actor", "xstate.error.actor"}

\* C25: a task completion (success or failure) is applied only while the
\* machine is in the state that launched the task: never in inspect or
\* create, where no task is in flight, and never in another task state.
C25_NoStaleCompletion ==
    [][/\ (lastEvent' # lastEvent /\ lastEvent'.type \in CompletionTypes) =>
             /\ state \in BusyStates
             /\ state = lastEvent'.value
             /\ task.src = ActorOf(state)
       /\ state \in StableStates => task = NoTask
       /\ state \in BusyStates => task.src = ActorOf(state)]_vars

C25_Witness ==
    /\ state = "inspect"
    /\ task = NoTask
    /\ lastEvent = DoneEvent("verifyAndFetch")
    /\ context.record # NoRecord

\* C26: the resolver is called only with a name that parses: INSPECT_NAME
\* with a nameInput that does not parse (the empty text included) returns to
\* inspect with the invalid-name error and fetchingRecord false, without a
\* resolve; nothing retries: verifyAndFetch is entered only by INSPECT_NAME.
C26_InvalidNameNotResolved ==
    [][/\ (state = "verifyAndFetch" /\ state' # state) =>
             /\ state' = "inspect"
             /\ ~ValidName(task.input.name) =>
                   /\ lastEvent' = ErrorEvent("verifyAndFetch")
                   /\ context'.error = "Invalid IPNS name"
                   /\ ~context'.fetchingRecord
             /\ (lastEvent' = DoneEvent("verifyAndFetch") \/ context'.error = "ResolveFailed") =>
                   ValidName(task.input.name)
       /\ (state' = "verifyAndFetch" /\ state # state') =>
             /\ state = "inspect"
             /\ lastEvent' = Event("INSPECT_NAME")
             /\ task'.input.name = context.nameInput]_vars

C26_Witness ==
    /\ state = "inspect"
    /\ lastEvent = ErrorEvent("verifyAndFetch")
    /\ context.error = "Invalid IPNS name"
    /\ ~context.fetchingRecord
    /\ context.nameInput = <<>>
    /\ context.ipns # NoClient

\* C27: right after every transition that enters create (from inspect by
\* UPDATE_MODE, or from generatingKey, creatingRecord, publishingRecord or
\* importingPrivateKey on either outcome) nameValidationError and
\* publishSuccess are false.
C27_CreateEntry ==
    [][(state' = "create" /\ state # "create") =>
          /\ ~context'.nameValidationError
          /\ ~context'.publishSuccess
          /\ state \in {"inspect", "generatingKey", "creatingRecord", "publishingRecord",
                        "importingPrivateKey"}
          /\ IF state = "inspect" THEN lastEvent'.type = "UPDATE_MODE"
             ELSE lastEvent' \in {DoneEvent(state), ErrorEvent(state)}]_vars

C27_Witness ==
    /\ state = "create"
    /\ lastEvent = DoneEvent("publishingRecord")
    /\ ~context.publishSuccess
    /\ ~context.nameValidationError
    /\ context.record # NoRecord

\* C28: IMPORT_RECORD handled in inspect sets record undefined,
\* nameValidationError false, nameInput empty and publishSuccess false before
\* the import starts, so no record is held while an import is in flight;
\* PUBLISH_RECORD handled in inspect enters republishingRecord only if a
\* record is held and otherwise leaves state and context unchanged.
C28_InspectImportAndPublish ==
    [][/\ (state' = "importingRecord" /\ state # state') =>
             /\ state = "inspect"
             /\ lastEvent' = Event("IMPORT_RECORD")
             /\ context'.record = NoRecord
             /\ ~context'.nameValidationError
             /\ context'.nameInput = <<>>
             /\ ~context'.publishSuccess
       /\ state' = "importingRecord" => context'.record = NoRecord
       /\ (state = "inspect" /\ Handled("PUBLISH_RECORD")) =>
             IF context.record # NoRecord
             THEN state' = "republishingRecord"
             ELSE state' = state /\ context' = context /\ task' = task
       /\ (state' = "republishingRecord" /\ state # state') =>
             /\ state = "inspect"
             /\ context.record # NoRecord]_vars

C28_Witness ==
    /\ state = "importingRecord"
    /\ lastEvent = Event("IMPORT_RECORD")
    /\ context.record = NoRecord
    /\ context.name = <<"k", "a">>
    /\ task.input.file # NoFile

\* publicKeyFromRaw(pubKey).toCID().toString(base36)
CanonicalName(pk) == <<"k", pk>>

\* C29: in a record import, when the record carries an embedded public key
\* the resulting name is the canonical name of that key whatever the base
\* name of the file is; the file name gives the identity only when there is
\* no embedded key.
C29_EmbeddedKeyPrecedence ==
    [][(state = "importingRecord" /\ lastEvent' = DoneEvent("importingRecord")) =>
          IF task.input.file.bytes.pubKey # NoKey
          THEN context'.name = CanonicalName(task.input.file.bytes.pubKey)
          ELSE /\ context'.name = BaseName(task.input.file.name)
               /\ ValidName(BaseName(task.input.file.name))]_vars

C29_Witness ==
    /\ state = "inspect"
    /\ lastEvent = DoneEvent("importingRecord")
    /\ context.record # NoRecord
    /\ context.record.pubKey = "a"
    /\ context.name = <<"k", "a">>

\* C30: in a record import without an embedded public key, whenever the base
\* name of the file does not parse as an identity (whatever the parse error)
\* or parses to an identity without a public key, the import fails with the
\* "could not infer name from file" error, not with the parser's error.
C30_CouldNotInferName ==
    [][(/\ state = "importingRecord"
        /\ state' # state
        /\ task.input.file # NoFile
        /\ task.input.file.bytes # Garbage
        /\ task.input.file.bytes.pubKey = NoKey
        /\ \/ ~ValidName(BaseName(task.input.file.name))
           \/ BaseName(task.input.file.name)[1] = "Q") =>
          /\ lastEvent' = ErrorEvent("importingRecord")
          /\ context'.error = CouldNotInfer]_vars

\* the states whose task calls the client
NetworkStates == {"verifyAndFetch", "creatingRecord", "publishingRecord", "republishingRecord"}

\* C31: after the initialization of the client has failed, every fetch,
\* create, publish and republish attempt fails without a successful call,
\* ends with error set and returns to inspect or create; no record is left
\* that the failed attempt would have produced.
C31_DegradedMode ==
    [][(context.ipns = NoClient /\ state \in NetworkStates /\ state' # state) =>
          /\ lastEvent' = ErrorEvent(state)
          /\ context'.error # Null
          /\ state' \in StableStates
          /\ context'.record \in {NoRecord, context.record}
          /\ context'.ipns = NoClient]_vars

C31_Witness ==
    /\ state = "create"
    /\ context.ipns = NoClient
    /\ lastEvent = ErrorEvent("publishingRecord")
    /\ context.error = "TypeError"
    /\ context.keypair # NoKey
    /\ context.record # NoRecord

\* C32: when publishingRecord fails the machine is in create with error set
\* and publishSuccess false, and record, name and keypair are unchanged (a
\* failed creatingRecord clears the record, a failed publication does not).
C32_PublishingFailure ==
    [][(state = "publishingRecord" /\ lastEvent' = ErrorEvent("publishingRecord")) =>
          /\ state' = "create"
          /\ context'.error # Null
          /\ ~context'.publishSuccess
          /\ context'.record = context.record
          /\ context'.name = context.name
          /\ context'.keypair = context.keypair]_vars

C32_Witness ==
    /\ state = "create"
    /\ lastEvent = ErrorEvent("publishingRecord")
    /\ context.error = "PublishFailed"
    /\ context.record # NoRecord
    /\ context.name = getIPNSNameFromKeypair(context.keypair)

\* C36: when verifyAndFetch fails, record and name are what they were before
\* INSPECT_NAME (a record fetched earlier stays next to the new error),
\* fetchingRecord is false and the machine is in inspect.
C36_FetchFailureKeepsRecord ==
    [][/\ (state' = "verifyAndFetch" \/ state = "verifyAndFetch") =>
             \/ lastEvent' = DoneEvent("verifyAndFetch")
             \/ /\ context'.record = context.record
                /\ context'.name = context.name
       /\ (state = "verifyAndFetch" /\ lastEvent' = ErrorEvent("verifyAndFetch")) =>
             /\ state' = "inspect"
             /\ ~context'.fetchingRecord
             /\ context'.error # Null]_vars

C36_Witness ==
    /\ state = "inspect"
    /\ lastEvent = ErrorEvent("verifyAndFetch")
    /\ context.error = "ResolveFailed"
    /\ context.record # NoRecord
    /\ context.name = <<"k", "a">>
    /\ ~context.fetchingRecord

\* C35: after a successful publishingRecord, name is the name of the keypair
\* that signed the published record, also when no CREATE_RECORD was made
\* with that keypair before.
C35_PublishDoneName ==
    [][(state = "publishingRecord" /\ lastEvent' = DoneEvent("publishingRecord")) =>
          context'.name = getIPNSNameFromKeypair(task.input.keypair)]_vars

\* the mode the component derives from the state of the machine
mode(s) ==
    IF s = "create" \/ s = "creatingRecord" \/ s = "publishingRecord"
    THEN "create" ELSE "inspect"

CreateSide == {"create", "generatingKey", "creatingRecord", "publishingRecord",
               "importingPrivateKey"}
InspectSide == {"inspect", "verifyAndFetch", "importingRecord", "republishingRecord"}

\* C37: the mode the component derives is create in every create-side state
\* (create, generatingKey, creatingRecord, publishingRecord,
\* importingPrivateKey) and inspect in every inspect-side state (inspect,
\* verifyAndFetch, importingRecord, republishingRecord).
C37_ModeOfState ==
    /\ state \in CreateSide => mode(state) = "create"
    /\ state \in InspectSide => mode(state) = "inspect"

\* C39: publishSuccess and the in-flight flag publishingRecord are never both
\* true.
C39_SuccessNotShownWhilePublishing ==
    ~(context.publishSuccess /\ context.publishingRecord)

\* the disabled attribute of the Fetch Record button
FetchDisabled(s, c) ==
    \/ s = "init"
    \/ c.nameValidationError
    \/ Len(c.nameInput) = 0

\* C33: under the guard of the Fetch Record button, INSPECT_NAME can be
\* dispatched only when the machine is not in init, nameValidationError is
\* false and nameInput is not empty; once UPDATE_NAME with validate has
\* flagged an unparseable value, the button stays disabled until a later
\* UPDATE_NAME.
C33_FetchDisabledWhileInvalid ==
    [][/\ ~FetchDisabled(state, context) =>
             /\ state # "init"
             /\ ~context.nameValidationError
             /\ context.nameInput # <<>>
       /\ (/\ context.nameValidationError
           /\ ~ValidName(context.nameInput)
           /\ ~FetchDisabled(state', context')) =>
             Handled("UPDATE_NAME")]_vars

\* C38: nameValidationError is true only if the current nameInput does not
\* parse as an identity: UPDATE_NAME without validate resets the flag, and
\* every other transition that replaces or clears nameInput leaves the flag
\* false.
C38_FlagRefersToCurrentInput ==
    [][/\ context'.nameValidationError => ~ValidName(context'.nameInput)
       /\ (Handled("UPDATE_NAME") /\ ~lastEvent'.validate) => ~context'.nameValidationError
       /\ (context'.nameInput # context.nameInput /\ lastEvent'.type # "UPDATE_NAME") =>
             ~context'.nameValidationError]_vars

C38_Witness ==
    /\ state = "verifyAndFetch"
    /\ lastEvent.type = "UPDATE_NAME"
    /\ context.nameInput = <<"x">>
    /\ context.nameValidationError

\* the accepted encodings: a base36 CID, or a base58 multihash (identity or
\* sha256)
AcceptedEncoding(t) ==
    /\ Len(t) = 2
    /\ t[1] \in {"k", "1", "Q"}
    /\ t[2] \in Keys

\* a text that getIPNSNameFromPublicKey produces
Produced(t) == \E pk \in Keys : t = getIPNSNameFromPublicKey(pk)

====
